---- MODULE Spec2Model ----
(***************************************************************************)
(* MorseMuse.  Letter mode: the timing decoder (MorseInput) and the         *)
(* practice session (LearningInterface) as one timer-driven state machine   *)
(* (Spec, SpecMetered).  Word mode: the loader and the LearnWords page      *)
(* (SpecWords).  The converter wordToMorse / morseToWord (SpecConverter).   *)
(*                                                                          *)
(* Time is in milliseconds and is kept as clocks relative to Date.now():    *)
(* pressElapsed is Date.now() - pressStartTime.current, and every pending   *)
(* setTimeout timer carries the time that remains until it fires.  A timer  *)
(* fires at its deadline: time does not pass a pending deadline.  Events    *)
(* that fall on the same millisecond are taken in any order.                *)
(*                                                                          *)
(* lastReleaseTime (MorseInput) is written and never read; it is left out.  *)
(***************************************************************************)
EXTENDS Integers, Sequences, FiniteSets, TLC

\* ---------------------------------------------------------------- bounds
\* symbols keyed beyond the length of the expected code
MaxExtra == 1
\* advance/retry callbacks pending when a press starts (free keying)
MaxPending == 2
\* longest press, in ms
MaxHold == 400
\* free keying: the clock moves in steps of the dit/dah threshold (and to
\* every timer deadline), so a press lasts 0 ms, 225 ms, or what the deadlines
\* in between add to these
FreeSteps == {225}
\* metered keying: the clock moves in steps of 25 ms, and a press lasts one of
MeteredSteps == {25}
HoldDurations == {100, 225, 400}

\* ------------------------------------------------------- program constants
ditDuration == 150
symbolSpaceThreshold == (ditDuration * 3) \div 2
interCharSpace == ditDuration * 3
AdvanceDelay == 800
RetryDelay == 1500

Null == -1

morseCodeMap ==
  [c \in {"A","B","C","D","E","F","G","H","I","J","K","L","M","N","O","P","Q",
          "R","S","T","U","V","W","X","Y","Z"} |->
     CASE c = "A" -> ".-"   [] c = "B" -> "-..." [] c = "C" -> "-.-."
       [] c = "D" -> "-.."  [] c = "E" -> "."    [] c = "F" -> "..-."
       [] c = "G" -> "--."  [] c = "H" -> "...." [] c = "I" -> ".."
       [] c = "J" -> ".---" [] c = "K" -> "-.-"  [] c = "L" -> ".-.."
       [] c = "M" -> "--"   [] c = "N" -> "-."   [] c = "O" -> "---"
       [] c = "P" -> ".--." [] c = "Q" -> "--.-" [] c = "R" -> ".-."
       [] c = "S" -> "..."  [] c = "T" -> "-"    [] c = "U" -> "..-"
       [] c = "V" -> "...-" [] c = "W" -> ".--"  [] c = "X" -> "-..-"
       [] c = "Y" -> "-.--" [] c = "Z" -> "--.."]

learningSequence ==
  <<"A","B","C","D","E","F","G","H","I","J","K","L","M","N","O","P","Q",
    "R","S","T","U","V","W","X","Y","Z">>

\* ------------------------------------------------------------------ state
VARIABLES
  keying,            \* the user: "free" or "metered" (fixed for a behaviour)
  timers,            \* pending setTimeout timers, in arming order
  alive,             \* LearningInterface is on the page
  isMounted,         \* LearningInterface: client-mount flag
  currentItemIndex,  \* LearningInterface
  validationState,   \* LearningInterface
  feedbackMessage,   \* LearningInterface
  rawInput,          \* MorseInput
  isPressing,        \* MorseInput
  pressElapsed,      \* MorseInput: Date.now() - pressStartTime.current, or Null
  charTimer,         \* MorseInput ref: id of the completion timer, or Null
  currentMorseChar,  \* MorseInput ref: the buffer
  emitted,           \* history: arguments of the onInputComplete calls made
                     \* since the buffer last changed
  holdLog,           \* history (metered keying): durations of the presses that
                     \* make up the buffer
  lastEvent,         \* history: what the last step did
  learnWords,        \* LearnWords: the component state, a record
  fetcher,           \* LearnWords: the fetcher (state, data)
  requests,          \* next-word requests sent and not answered yet
  conv               \* converter: an argument, the calls made on it, the result

vars == <<keying, timers, alive, isMounted, currentItemIndex, validationState,
          feedbackMessage, rawInput, isPressing, pressElapsed, charTimer,
          currentMorseChar, emitted, holdLog, lastEvent, learnWords, fetcher,
          requests, conv>>

sessionVars == <<alive, isMounted, currentItemIndex, validationState, feedbackMessage>>
decoderVars == <<rawInput, isPressing, pressElapsed, charTimer, currentMorseChar,
                 emitted, holdLog>>
\* word mode and the converter: the letter-mode steps leave them alone
wordVars == <<learnWords, fetcher, requests, conv>>

\* currentItem = learningSequence[currentItemIndex]; undefined past the end
currentItemAt(i) ==
  IF i >= 0 /\ i < Len(learningSequence) THEN learningSequence[i + 1] ELSE "undefined"

expectedMorseAt(i) ==
  IF currentItemAt(i) = "undefined" THEN "undefined" ELSE morseCodeMap[currentItemAt(i)]

currentItem == currentItemAt(currentItemIndex)
expectedMorse == expectedMorseAt(currentItemIndex)

\* MorseInput is rendered: after the client mount and while a current item exists
decoderMounted == alive /\ isMounted /\ currentItem # "undefined"

\* where the decoder stands: no MorseInput on the page, a press in progress, a
\* completion timer pending, or neither
decoderPhase ==
  IF ~decoderMounted THEN "unmounted"
  ELSE IF pressElapsed # Null THEN "pressing"
  ELSE IF charTimer # Null THEN "awaiting"
  ELSE "idle"

\* ------------------------------------------------------------ timer table
RemoveAt(s, k) == SubSeq(s, 1, k - 1) \o SubSeq(s, k + 1, Len(s))

RECURSIVE RemoveId(_, _)
RemoveId(s, id) ==
  IF s = <<>> THEN <<>>
  ELSE IF Head(s).id = id THEN RemoveId(Tail(s), id)
  ELSE <<Head(s)>> \o RemoveId(Tail(s), id)

\* setTimeout(callback, delay): the callback is named by its kind; idx is the
\* currentItemIndex its closure captured.  The new timer is the last of the table
setTimeout(tbl, kind, delay, idx) ==
  Append(tbl, [id |-> (CHOOSE i \in 1..(Len(tbl) + 1) :
                         i \notin {tbl[k].id : k \in DOMAIN tbl}),
               kind |-> kind, remaining |-> delay, idx |-> idx])

clearTimeout(tbl, id) == RemoveId(tbl, id)

\* the timer the browser runs next: one that is due, the first armed of those
IsNext(k) ==
  /\ k \in DOMAIN timers
  /\ timers[k].remaining = 0
  /\ \A j \in DOMAIN timers : timers[j].remaining = 0 => j >= k

Pending(kind) == {k \in DOMAIN timers : timers[k].kind = kind}

\* ------------------------------------------------------------- MorseInput
\* clearTimers that forgets clearTimeout and only drops the reference
clearTimers_leak(tbl, ref) == tbl

\* clearTimers: the timer table after it (charTimer.current becomes null)
clearTimers(tbl, ref) == IF ref # Null THEN clearTimeout(tbl, ref) ELSE tbl

\* the state a MorseInput has when it is mounted
FreshDecoder ==
  /\ rawInput' = ""
  /\ isPressing' = FALSE
  /\ pressElapsed' = Null
  /\ charTimer' = Null
  /\ currentMorseChar' = ""
  /\ emitted' = <<>>
  /\ holdLog' = <<>>

\* clearInput that does not set pressStartTime.current to null
clearInput_keepPressStart(tbl) ==
  /\ timers' = clearTimers(tbl, charTimer)
  /\ charTimer' = Null
  /\ rawInput' = ""
  /\ currentMorseChar' = ""
  /\ isPressing' = FALSE
  /\ emitted' = <<>>
  /\ holdLog' = <<>>
  /\ UNCHANGED pressElapsed

\* clearInput that leaves the press state (pressStartTime, isPressing) alone
clearInput_keepPress(tbl) ==
  /\ timers' = clearTimers(tbl, charTimer)
  /\ charTimer' = Null
  /\ rawInput' = ""
  /\ currentMorseChar' = ""
  /\ emitted' = <<>>
  /\ holdLog' = <<>>
  /\ UNCHANGED <<pressElapsed, isPressing>>

\* clearInput, on the table tbl
clearInput(tbl) ==
  /\ timers' = clearTimers(tbl, charTimer)
  /\ charTimer' = Null
  /\ rawInput' = ""
  /\ currentMorseChar' = ""
  /\ pressElapsed' = Null
  /\ isPressing' = FALSE
  /\ emitted' = <<>>
  /\ holdLog' = <<>>

\* the history records a release that has no recorded press start
strayRecorded ==
  \/ keying = "metered"
  \/ lastEvent.type \in {"retry", "advance"} /\ lastEvent.was = "pressing"

\* handlePressStart without its clearTimers call
handlePressStart_keepTimer ==
  /\ isPressing' = TRUE
  /\ pressElapsed' = 0
  /\ lastEvent' = [type |-> "press"]
  /\ UNCHANGED <<wordVars, keying, sessionVars, timers, charTimer, rawInput, currentMorseChar,
                 emitted, holdLog>>

handlePressStart ==
  /\ timers' = clearTimers(timers, charTimer)
  /\ charTimer' = Null
  /\ isPressing' = TRUE
  /\ pressElapsed' = 0
  /\ lastEvent' = [type |-> "press"]
  /\ UNCHANGED <<wordVars, keying, sessionVars, rawInput, currentMorseChar, emitted, holdLog>>

\* a long press read as an underscore
Classify_underscore(pressDuration) ==
  IF pressDuration < symbolSpaceThreshold THEN "." ELSE "_"

\* the comparison with the threshold made inclusive
Classify_inclusive(pressDuration) ==
  IF pressDuration <= symbolSpaceThreshold THEN "." ELSE "-"

Classify(pressDuration) == IF pressDuration < symbolSpaceThreshold THEN "." ELSE "-"

\* handlePressEnd that puts the new symbol in front of the buffer
handlePressEnd_prepend ==
  IF pressElapsed = Null
  THEN IF strayRecorded
       THEN /\ lastEvent' = [type |-> "strayRelease"]
            /\ UNCHANGED <<wordVars, keying, timers, sessionVars, decoderVars>>
       ELSE UNCHANGED vars
  ELSE LET pressDuration == pressElapsed
           symbol == Classify(pressDuration)
           cleared == clearTimers(timers, charTimer)
           armed == setTimeout(cleared, "char", interCharSpace, currentItemIndex)
       IN /\ currentMorseChar' = symbol \o currentMorseChar
          /\ rawInput' = symbol \o rawInput
          /\ isPressing' = FALSE
          /\ pressElapsed' = Null
          /\ timers' = armed
          /\ charTimer' = armed[Len(armed)].id
          /\ emitted' = <<>>
          /\ holdLog' = IF keying = "metered" THEN Append(holdLog, pressDuration)
                        ELSE holdLog
          /\ lastEvent' = [type |-> "release", duration |-> pressDuration]
          /\ UNCHANGED <<wordVars, keying, sessionVars>>

\* handlePressEnd without the guard of line 98: Date.now() - null is Date.now(),
\* far above the threshold, so a release with no press start appends a dah
handlePressEnd_noGuard ==
  LET stray == pressElapsed = Null
      pressDuration == pressElapsed
      symbol == IF stray THEN "-" ELSE Classify(pressDuration)
      cleared == clearTimers(timers, charTimer)
      armed == setTimeout(cleared, "char", interCharSpace, currentItemIndex)
  IN /\ currentMorseChar' = currentMorseChar \o symbol
     /\ rawInput' = rawInput \o symbol
     /\ isPressing' = FALSE
     /\ pressElapsed' = Null
     /\ timers' = armed
     /\ charTimer' = armed[Len(armed)].id
     /\ emitted' = <<>>
     /\ holdLog' = IF keying = "metered" /\ ~stray THEN Append(holdLog, pressDuration)
                   ELSE holdLog
     /\ lastEvent' = IF stray THEN [type |-> "strayRelease"]
                     ELSE [type |-> "release", duration |-> pressDuration]
     /\ UNCHANGED <<wordVars, keying, sessionVars>>

\* handlePressEnd: with no recorded press start it returns at once (line 98).
\* The history records that release under metered keying, and under free
\* keying when it is the release of a press that a reset has just interrupted.
handlePressEnd ==
  IF pressElapsed = Null
  THEN IF strayRecorded
       THEN /\ lastEvent' = [type |-> "strayRelease"]
            /\ UNCHANGED <<wordVars, keying, timers, sessionVars, decoderVars>>
       ELSE UNCHANGED vars
  ELSE LET pressDuration == pressElapsed
           symbol == Classify(pressDuration)
           cleared == clearTimers(timers, charTimer)
           armed == setTimeout(cleared, "char", interCharSpace, currentItemIndex)
       IN /\ currentMorseChar' = currentMorseChar \o symbol
          /\ rawInput' = rawInput \o symbol
          /\ isPressing' = FALSE
          /\ pressElapsed' = Null
          /\ timers' = armed
          /\ charTimer' = armed[Len(armed)].id
          /\ emitted' = <<>>
          /\ holdLog' = IF keying = "metered" THEN Append(holdLog, pressDuration)
                        ELSE holdLog
          /\ lastEvent' = [type |-> "release", duration |-> pressDuration]
          /\ UNCHANGED <<wordVars, keying, sessionVars>>

\* the user presses the button
Press ==
  /\ decoderMounted
  /\ Len(currentMorseChar) < Len(expectedMorse) + MaxExtra
  /\ Cardinality(Pending("advance") \cup Pending("retry"))
       < (IF keying = "metered" THEN 1 ELSE MaxPending)
  /\ handlePressStart

\* the user lets go of the button (or a release arrives with no press before it)
Release ==
  /\ decoderMounted
  /\ (keying = "metered" /\ pressElapsed # Null) => pressElapsed \in HoldDurations
  /\ handlePressEnd

\* ------------------------------------------------------ LearningInterface
\* handleInputComplete of the render whose currentItemIndex is idx, on table tbl
handleInputComplete(tbl, idx, inputMorse) ==
  IF currentItemAt(idx) = "undefined"
  THEN /\ timers' = tbl
       /\ UNCHANGED <<validationState, feedbackMessage>>
  ELSE IF inputMorse = expectedMorseAt(idx)
  THEN /\ validationState' = "correct"
       /\ feedbackMessage' = "Correct!"
       /\ timers' = setTimeout(tbl, "advance", AdvanceDelay, idx)
  ELSE /\ validationState' = "incorrect"
       /\ feedbackMessage' = "Incorrect. Expected: " \o expectedMorseAt(idx)
       /\ timers' = setTimeout(tbl, "retry", RetryDelay, idx)

\* completeInputSequence that clears the buffer itself after the call
completeInputSequence_clears(tbl, idx) ==
  IF currentMorseChar # ""
  THEN /\ handleInputComplete(tbl, idx, currentMorseChar)
       /\ emitted' = Append(emitted, currentMorseChar)
       /\ lastEvent' = [type |-> "complete", code |-> currentMorseChar, idx |-> idx]
       /\ currentMorseChar' = ""
       /\ rawInput' = ""
  ELSE /\ timers' = tbl
       /\ lastEvent' = [type |-> "charTimerEmpty"]
       /\ UNCHANGED <<validationState, feedbackMessage, emitted, rawInput,
                      currentMorseChar>>

\* completeInputSequence, called by the completion timer's callback
completeInputSequence(tbl, idx) ==
  IF currentMorseChar # ""
  THEN /\ handleInputComplete(tbl, idx, currentMorseChar)
       /\ emitted' = Append(emitted, currentMorseChar)
       /\ lastEvent' = [type |-> "complete", code |-> currentMorseChar, idx |-> idx]
       /\ UNCHANGED <<rawInput, currentMorseChar>>
  ELSE /\ timers' = tbl
       /\ lastEvent' = [type |-> "charTimerEmpty"]
       /\ UNCHANGED <<validationState, feedbackMessage, emitted, rawInput,
                      currentMorseChar>>

\* the completion timer's callback: completeInputSequence, then charTimer = null
CharTimerFire ==
  \E k \in DOMAIN timers :
    /\ IsNext(k)
    /\ timers[k].kind = "char"
    /\ completeInputSequence(RemoveAt(timers, k), timers[k].idx)
    /\ charTimer' = Null
    /\ UNCHANGED <<wordVars, keying, alive, isMounted, currentItemIndex, isPressing,
                   pressElapsed, holdLog>>

\* an advance without the test of line 135: it moves on from the last target too
AdvanceFire_noLastTest ==
  \E k \in DOMAIN timers :
    /\ IsNext(k)
    /\ timers[k].kind = "advance"
    /\ lastEvent' = [type |-> "advance", idx |-> timers[k].idx, was |-> decoderPhase]
    /\ LET rest == RemoveAt(timers, k)
       IN IF ~alive
          THEN /\ timers' = rest
               /\ UNCHANGED <<currentItemIndex, validationState, feedbackMessage,
                              decoderVars>>
          ELSE /\ currentItemIndex' = currentItemIndex + 1
               /\ validationState' = "idle"
               /\ feedbackMessage' = ""
               /\ timers' = clearTimers(rest, charTimer)
               /\ FreshDecoder
    /\ UNCHANGED <<wordVars, keying, alive, isMounted>>

\* an advance that moves the index and resets nothing of the decoder: no
\* clearInput call and no key on MorseInput
AdvanceFire_keepDecoder ==
  \E k \in DOMAIN timers :
    /\ IsNext(k)
    /\ timers[k].kind = "advance"
    /\ lastEvent' = [type |-> "advance", idx |-> timers[k].idx, was |-> decoderPhase]
    /\ LET rest == RemoveAt(timers, k)
       IN IF ~alive
          THEN /\ timers' = rest
               /\ UNCHANGED <<currentItemIndex, validationState, feedbackMessage,
                              decoderVars>>
          ELSE IF timers[k].idx < Len(learningSequence) - 1
          THEN /\ currentItemIndex' = currentItemIndex + 1
               /\ validationState' = "idle"
               /\ feedbackMessage' = ""
               /\ timers' = rest
               /\ UNCHANGED decoderVars
          ELSE /\ feedbackMessage' = "Congratulations! You completed all letters."
               /\ timers' = rest
               /\ UNCHANGED <<currentItemIndex, validationState, decoderVars>>
    /\ UNCHANGED <<wordVars, keying, alive, isMounted>>

\* the callback armed on a correct answer (lines 134-145), with the re-render
\* that follows: a changed index remounts MorseInput (its key) and runs the
\* reset effect (lines 159-165).  A callback of an unmounted component changes
\* nothing.
AdvanceFire ==
  \E k \in DOMAIN timers :
    /\ IsNext(k)
    /\ timers[k].kind = "advance"
    /\ lastEvent' = [type |-> "advance", idx |-> timers[k].idx, was |-> decoderPhase]
    /\ LET rest == RemoveAt(timers, k)
       IN IF ~alive
          THEN /\ timers' = rest
               /\ UNCHANGED <<currentItemIndex, validationState, feedbackMessage,
                              decoderVars>>
          ELSE IF timers[k].idx < Len(learningSequence) - 1
          THEN /\ currentItemIndex' = currentItemIndex + 1
               /\ validationState' = "idle"
               /\ feedbackMessage' = ""
               /\ timers' = clearTimers(rest, charTimer)
               /\ FreshDecoder
          ELSE /\ feedbackMessage' = "Congratulations! You completed all letters."
               /\ timers' = rest
               /\ UNCHANGED <<currentItemIndex, validationState, decoderVars>>
    /\ UNCHANGED <<wordVars, keying, alive, isMounted>>

\* the callback armed on a wrong answer (lines 150-154)
RetryFire ==
  \E k \in DOMAIN timers :
    /\ IsNext(k)
    /\ timers[k].kind = "retry"
    /\ lastEvent' = [type |-> "retry", idx |-> timers[k].idx, was |-> decoderPhase]
    /\ LET rest == RemoveAt(timers, k)
       IN IF ~alive
          THEN /\ timers' = rest
               /\ UNCHANGED <<validationState, feedbackMessage, decoderVars>>
          ELSE /\ validationState' = "idle"
               /\ feedbackMessage' = ""
               /\ IF decoderMounted
                  THEN clearInput(rest)
                  ELSE /\ timers' = rest
                       /\ UNCHANGED decoderVars
    /\ UNCHANGED <<wordVars, keying, alive, isMounted, currentItemIndex>>

\* first client effect: isMounted becomes true, MorseInput is mounted and the
\* reset effect (lines 159-165) runs
ClientMount ==
  /\ alive
  /\ ~isMounted
  /\ isMounted' = TRUE
  /\ validationState' = "idle"
  /\ feedbackMessage' = ""
  /\ FreshDecoder
  /\ lastEvent' = [type |-> "mount"]
  /\ UNCHANGED <<wordVars, keying, timers, alive, currentItemIndex>>

\* an unmount whose cleanup does not run clearTimers
Unmount_keepTimers ==
  /\ alive
  /\ isMounted
  /\ alive' = FALSE
  /\ timers' = timers
  /\ FreshDecoder
  /\ lastEvent' = [type |-> "unmount", was |-> decoderPhase]
  /\ UNCHANGED <<wordVars, keying, isMounted, currentItemIndex, validationState, feedbackMessage>>

\* the page is left: LearningInterface and MorseInput are unmounted; the
\* MorseInput cleanup (lines 120-124) runs clearTimers.  The MorseInput
\* instance is gone; its variables hold the values of a fresh one from then on.
Unmount ==
  /\ alive
  /\ isMounted
  /\ alive' = FALSE
  /\ timers' = IF decoderMounted THEN clearTimers(timers, charTimer) ELSE timers
  /\ FreshDecoder
  /\ lastEvent' = [type |-> "unmount", was |-> decoderPhase]
  /\ UNCHANGED <<wordVars, keying, isMounted, currentItemIndex, validationState, feedbackMessage>>

\* the time to the next deadline
NextDeadline == {timers[k].remaining : k \in DOMAIN timers} \ {0}

Steps == IF keying = "metered" THEN MeteredSteps ELSE FreeSteps

\* time passes, up to the next deadline
Elapse ==
  \E d \in Steps \cup NextDeadline :
    /\ \A k \in DOMAIN timers : timers[k].remaining >= d
    /\ pressElapsed # Null => pressElapsed + d <= MaxHold
    /\ timers' = [k \in DOMAIN timers |->
                    [timers[k] EXCEPT !.remaining = timers[k].remaining - d]]
    /\ pressElapsed' = IF pressElapsed = Null THEN Null ELSE pressElapsed + d
    /\ lastEvent' = [type |-> "elapse"]
    /\ UNCHANGED <<wordVars, keying, sessionVars, rawInput, isPressing, charTimer,
                   currentMorseChar, emitted, holdLog>>

InitState ==
  /\ timers = <<>>
  /\ alive = TRUE
  /\ isMounted = FALSE
  /\ currentItemIndex = 0
  /\ validationState = "idle"
  /\ feedbackMessage = ""
  /\ rawInput = ""
  /\ isPressing = FALSE
  /\ pressElapsed = Null
  /\ charTimer = Null
  /\ currentMorseChar = ""
  /\ emitted = <<>>
  /\ holdLog = <<>>
  /\ lastEvent = [type |-> "init"]

\* the word-mode page is not open
PageOff ==
  /\ learnWords = [currentWord |-> <<>>, apiError |-> "null", userInput |-> <<>>,
                   correctMorse |-> <<>>, showHint |-> FALSE, feedback |-> "",
                   validationState |-> "idle"]
  /\ fetcher = [state |-> "idle", data |-> <<>>]
  /\ requests = 0

\* the converter is not in use
ConverterOff == conv = [arg |-> <<>>, out |-> <<>>, calls |-> <<>>]

WordModeOff == PageOff /\ ConverterOff

Init == keying = "free" /\ InitState /\ WordModeOff

InitMetered == keying = "metered" /\ InitState /\ WordModeOff

Next ==
  \/ ClientMount
  \/ Press
  \/ Release
  \/ CharTimerFire
  \/ AdvanceFire
  \/ RetryFire
  \/ Unmount
  \/ Elapse

Spec == Init /\ [][Next]_vars

SpecMetered == InitMetered /\ [][Next]_vars

\* =========================================================================
\* Word mode (learn.words.tsx) and the converter (wordToMorse, morseToWord).
\* A text of word mode is a sequence of one-character strings.
\* =========================================================================

\* ------------------------------------------------------- bounds (word mode)
\* longest argument of wordToMorse and morseToWord that is enumerated
MaxArgLen == 3
\* longest generator payload that is enumerated
MaxPayloadLen == 2
\* next-word requests that may be outstanding together
MaxInFlight == 2

\* the characters the enumerated arguments are made of
ArgAlphabet == {".", "-", " ", "S", "O", "s", "#"}
\* the characters the enumerated payloads are made of
PayloadAlphabet == {"h", "I", "1", " ", "\n"}

\* ---------------------------------------------------------------- strings
RECURSIVE Texts(_, _)
\* the texts over alphabet of at most n characters
Texts(alphabet, n) ==
  IF n = 0 THEN {<<>>}
  ELSE LET shorter == Texts(alphabet, n - 1)
       IN shorter \cup {Append(t, c) : t \in shorter, c \in alphabet}

upperCaseLetters ==
  <<"A", "B", "C", "D", "E", "F", "G", "H", "I", "J", "K", "L", "M", "N", "O", "P", "Q", "R", "S", "T", "U", "V", "W", "X", "Y", "Z">>
lowerCaseLetters ==
  <<"a", "b", "c", "d", "e", "f", "g", "h", "i", "j", "k", "l", "m", "n", "o", "p", "q", "r", "s", "t", "u", "v", "w", "x", "y", "z">>

\* String.prototype.toUpperCase, character by character
toUpperCase(s) ==
  [i \in DOMAIN s |->
     IF \E k \in DOMAIN lowerCaseLetters : lowerCaseLetters[k] = s[i]
     THEN upperCaseLetters[CHOOSE k \in DOMAIN lowerCaseLetters : lowerCaseLetters[k] = s[i]]
     ELSE s[i]]

WhiteSpace == {" ", "\n", "\t"}

RECURSIVE trimStart(_)
trimStart(s) ==
  IF s # <<>> /\ Head(s) \in WhiteSpace THEN trimStart(Tail(s)) ELSE s

RECURSIVE trimEnd(_)
trimEnd(s) ==
  IF s # <<>> /\ s[Len(s)] \in WhiteSpace THEN trimEnd(SubSeq(s, 1, Len(s) - 1)) ELSE s

\* String.prototype.trim
trim(s) == trimEnd(trimStart(s))

RECURSIVE split(_, _)
\* String.prototype.split(sep), sep one character: the pieces between the
\* separators; the empty text has one piece, itself
split(s, sep) ==
  IF \A i \in DOMAIN s : s[i] # sep THEN <<s>>
  ELSE LET i == CHOOSE j \in DOMAIN s :
                  s[j] = sep /\ \A k \in 1..(j - 1) : s[k] # sep
       IN <<SubSeq(s, 1, i - 1)>> \o split(SubSeq(s, i + 1, Len(s)), sep)

RECURSIVE join(_, _)
\* Array.prototype.join(sep) of an array of texts
join(a, sep) ==
  IF a = <<>> THEN <<>>
  ELSE IF Len(a) = 1 THEN a[1]
  ELSE a[1] \o sep \o join(Tail(a), sep)

\* --------------------------------------------------------------- converter
\* a table in which N has the code of A
morseCodeMapEntries_dup ==
  <<
    <<"0", <<"-", "-", "-", "-", "-">> >>,
    <<"1", <<".", "-", "-", "-", "-">> >>,
    <<"2", <<".", ".", "-", "-", "-">> >>,
    <<"3", <<".", ".", ".", "-", "-">> >>,
    <<"4", <<".", ".", ".", ".", "-">> >>,
    <<"5", <<".", ".", ".", ".", ".">> >>,
    <<"6", <<"-", ".", ".", ".", ".">> >>,
    <<"7", <<"-", "-", ".", ".", ".">> >>,
    <<"8", <<"-", "-", "-", ".", ".">> >>,
    <<"9", <<"-", "-", "-", "-", ".">> >>,
    <<"A", <<".", "-">> >>,
    <<"B", <<"-", ".", ".", ".">> >>,
    <<"C", <<"-", ".", "-", ".">> >>,
    <<"D", <<"-", ".", ".">> >>,
    <<"E", <<".">> >>,
    <<"F", <<".", ".", "-", ".">> >>,
    <<"G", <<"-", "-", ".">> >>,
    <<"H", <<".", ".", ".", ".">> >>,
    <<"I", <<".", ".">> >>,
    <<"J", <<".", "-", "-", "-">> >>,
    <<"K", <<"-", ".", "-">> >>,
    <<"L", <<".", "-", ".", ".">> >>,
    <<"M", <<"-", "-">> >>,
    <<"N", <<".", "-">> >>,
    <<"O", <<"-", "-", "-">> >>,
    <<"P", <<".", "-", "-", ".">> >>,
    <<"Q", <<"-", "-", ".", "-">> >>,
    <<"R", <<".", "-", ".">> >>,
    <<"S", <<".", ".", ".">> >>,
    <<"T", <<"-">> >>,
    <<"U", <<".", ".", "-">> >>,
    <<"V", <<".", ".", ".", "-">> >>,
    <<"W", <<".", "-", "-">> >>,
    <<"X", <<"-", ".", ".", "-">> >>,
    <<"Y", <<"-", ".", "-", "-">> >>,
    <<"Z", <<"-", "-", ".", ".">> >>,
    <<".", <<".", "-", ".", "-", ".", "-">> >>,
    <<",", <<"-", "-", ".", ".", "-", "-">> >>,
    <<"?", <<".", ".", "-", "-", ".", ".">> >>,
    <<"'", <<".", "-", "-", "-", "-", ".">> >>,
    <<"!", <<"-", ".", "-", ".", "-", "-">> >>,
    <<"/", <<"-", ".", ".", "-", ".">> >>,
    <<"(", <<"-", ".", "-", "-", ".">> >>,
    <<")", <<"-", ".", "-", "-", ".", "-">> >>,
    <<"&", <<".", "-", ".", ".", ".">> >>,
    <<":", <<"-", "-", "-", ".", ".", ".">> >>,
    <<";", <<"-", ".", "-", ".", "-", ".">> >>,
    <<"=", <<"-", ".", ".", ".", "-">> >>,
    <<"+", <<".", "-", ".", "-", ".">> >>,
    <<"-", <<"-", ".", ".", ".", ".", "-">> >>,
    <<"_", <<".", ".", "-", "-", ".", "-">> >>,
    <<"\"", <<".", "-", ".", ".", "-", ".">> >>,
    <<"$", <<".", ".", ".", "-", ".", ".", "-">> >>,
    <<"@", <<".", "-", "-", ".", "-", ".">> >>
  >>

\* morseCodeMap of the converter, as Object.entries lists it: the integer keys
\* first, in ascending order, then the other keys in the order they were written
morseCodeMapEntries ==
  <<
    <<"0", <<"-", "-", "-", "-", "-">> >>,
    <<"1", <<".", "-", "-", "-", "-">> >>,
    <<"2", <<".", ".", "-", "-", "-">> >>,
    <<"3", <<".", ".", ".", "-", "-">> >>,
    <<"4", <<".", ".", ".", ".", "-">> >>,
    <<"5", <<".", ".", ".", ".", ".">> >>,
    <<"6", <<"-", ".", ".", ".", ".">> >>,
    <<"7", <<"-", "-", ".", ".", ".">> >>,
    <<"8", <<"-", "-", "-", ".", ".">> >>,
    <<"9", <<"-", "-", "-", "-", ".">> >>,
    <<"A", <<".", "-">> >>,
    <<"B", <<"-", ".", ".", ".">> >>,
    <<"C", <<"-", ".", "-", ".">> >>,
    <<"D", <<"-", ".", ".">> >>,
    <<"E", <<".">> >>,
    <<"F", <<".", ".", "-", ".">> >>,
    <<"G", <<"-", "-", ".">> >>,
    <<"H", <<".", ".", ".", ".">> >>,
    <<"I", <<".", ".">> >>,
    <<"J", <<".", "-", "-", "-">> >>,
    <<"K", <<"-", ".", "-">> >>,
    <<"L", <<".", "-", ".", ".">> >>,
    <<"M", <<"-", "-">> >>,
    <<"N", <<"-", ".">> >>,
    <<"O", <<"-", "-", "-">> >>,
    <<"P", <<".", "-", "-", ".">> >>,
    <<"Q", <<"-", "-", ".", "-">> >>,
    <<"R", <<".", "-", ".">> >>,
    <<"S", <<".", ".", ".">> >>,
    <<"T", <<"-">> >>,
    <<"U", <<".", ".", "-">> >>,
    <<"V", <<".", ".", ".", "-">> >>,
    <<"W", <<".", "-", "-">> >>,
    <<"X", <<"-", ".", ".", "-">> >>,
    <<"Y", <<"-", ".", "-", "-">> >>,
    <<"Z", <<"-", "-", ".", ".">> >>,
    <<".", <<".", "-", ".", "-", ".", "-">> >>,
    <<",", <<"-", "-", ".", ".", "-", "-">> >>,
    <<"?", <<".", ".", "-", "-", ".", ".">> >>,
    <<"'", <<".", "-", "-", "-", "-", ".">> >>,
    <<"!", <<"-", ".", "-", ".", "-", "-">> >>,
    <<"/", <<"-", ".", ".", "-", ".">> >>,
    <<"(", <<"-", ".", "-", "-", ".">> >>,
    <<")", <<"-", ".", "-", "-", ".", "-">> >>,
    <<"&", <<".", "-", ".", ".", ".">> >>,
    <<":", <<"-", "-", "-", ".", ".", ".">> >>,
    <<";", <<"-", ".", "-", ".", "-", ".">> >>,
    <<"=", <<"-", ".", ".", ".", "-">> >>,
    <<"+", <<".", "-", ".", "-", ".">> >>,
    <<"-", <<"-", ".", ".", ".", ".", "-">> >>,
    <<"_", <<".", ".", "-", "-", ".", "-">> >>,
    <<"\"", <<".", "-", ".", ".", "-", ".">> >>,
    <<"$", <<".", ".", ".", "-", ".", ".", "-">> >>,
    <<"@", <<".", "-", "-", ".", "-", ".">> >>
  >>

\* morseCodeMap[char]: the code, or undefined (the empty text here: no code is
\* empty)
morseCodeMapGet(char) ==
  LET entries == morseCodeMapEntries
  IN IF \E i \in DOMAIN entries : entries[i][1] = char
     THEN entries[CHOOSE i \in DOMAIN entries : entries[i][1] = char][2]
     ELSE <<>>

\* wordToMorse without the filter of line 283
wordToMorse_noFilter(word) ==
  IF word = <<>> THEN <<>>
  ELSE LET chars == toUpperCase(word)
           codes == [i \in DOMAIN chars |-> morseCodeMapGet(chars[i])]
       IN join(codes, <<" ">>)

wordToMorse(word) ==
  IF word = <<>> THEN <<>>
  ELSE LET chars == toUpperCase(word)
           codes == [i \in DOMAIN chars |-> morseCodeMapGet(chars[i])]
           kept == SelectSeq(codes, LAMBDA code : code # <<>>)
       IN join(kept, <<" ">>)

\* properties every object literal inherits from Object.prototype, with the
\* text join('') makes of their values
ObjectPrototype ==
  <<
    <<<<"c", "o", "n", "s", "t", "r", "u", "c", "t", "o", "r">>,
      <<"f", "u", "n", "c", "t", "i", "o", "n", " ", "O", "b", "j", "e", "c", "t", "(", ")", " ", "{", " ", "[", "n", "a", "t", "i", "v", "e", " ", "c", "o", "d", "e", "]", " ", "}">> >>,
    <<<<"t", "o", "S", "t", "r", "i", "n", "g">>,
      <<"f", "u", "n", "c", "t", "i", "o", "n", " ", "t", "o", "S", "t", "r", "i", "n", "g", "(", ")", " ", "{", " ", "[", "n", "a", "t", "i", "v", "e", " ", "c", "o", "d", "e", "]", " ", "}">> >>
  >>

\* reverseMorseCodeMap[code] || '?', as a text: reduce writes acc[value] = key
\* entry by entry, so the last entry with this code is the one that stays; a
\* name the map does not own is looked up in Object.prototype
reverseMorseCodeMapGet(code) ==
  LET entries == morseCodeMapEntries
      own == {i \in DOMAIN entries : entries[i][2] = code}
      inherited == {i \in DOMAIN ObjectPrototype : ObjectPrototype[i][1] = code}
  IN IF own # {}
     THEN <<entries[CHOOSE i \in own : \A j \in own : j <= i][1]>>
     ELSE IF inherited # {}
     THEN ObjectPrototype[CHOOSE i \in inherited : TRUE][2]
     ELSE <<"?">>

morseToWord(morse) ==
  LET codes == split(trim(morse), " ")
      chars == [i \in DOMAIN codes |-> reverseMorseCodeMapGet(codes[i])]
  IN join(chars, <<>>)

\* the calls of the converter that are enumerated: each takes the result of the
\* call before it (the first takes the argument)
MaxCalls == 2

TableCodes == {morseCodeMapEntries[i][2] : i \in DOMAIN morseCodeMapEntries}
TableKeys == {<<morseCodeMapEntries[i][1]>> : i \in DOMAIN morseCodeMapEntries}

ConverterArgs ==
  Texts(ArgAlphabet, MaxArgLen) \cup TableCodes \cup TableKeys
    \cup {ObjectPrototype[i][1] : i \in DOMAIN ObjectPrototype}

CallWordToMorse ==
  /\ Len(conv.calls) < MaxCalls
  /\ conv' = [conv EXCEPT !.out = wordToMorse(conv.out),
                          !.calls = Append(@, "wordToMorse")]
  /\ UNCHANGED <<learnWords, fetcher, requests, keying, timers, sessionVars,
                 decoderVars, lastEvent>>

CallMorseToWord ==
  /\ Len(conv.calls) < MaxCalls
  /\ conv' = [conv EXCEPT !.out = morseToWord(conv.out),
                          !.calls = Append(@, "morseToWord")]
  /\ UNCHANGED <<learnWords, fetcher, requests, keying, timers, sessionVars,
                 decoderVars, lastEvent>>

\* ------------------------------------------------------------------ loader
null == "null"

\* what the generator call of lines 49-56 comes to: no API key (the call is not
\* made), a text, or an exception with a message
TextOutcome(text) == [kind |-> "text", text |-> text, message |-> ""]
ThrowOutcome(message) == [kind |-> "throw", text |-> <<>>, message |-> message]
NoKeyOutcome == [kind |-> "noKey", text |-> <<>>, message |-> ""]

HelloWorld == <<"h", "e", "l", "l", "o", " ", "w", "o", "r", "l", "d">>

Payloads == Texts(PayloadAlphabet, MaxPayloadLen) \cup {HelloWorld}

InvalidKeyMessage == "API key not valid. Please pass a valid API key."

Outcomes ==
  {NoKeyOutcome} \cup {TextOutcome(p) : p \in Payloads}
    \cup {ThrowOutcome(m) : m \in {InvalidKeyMessage, "fetch failed"}}

\* /^[A-Z]+$/.test(text)
testLetters(text) ==
  /\ text # <<>>
  /\ \A i \in DOMAIN text :
       \E k \in DOMAIN upperCaseLetters : upperCaseLetters[k] = text[i]

\* a loader that takes any non-empty text without white space
loader_anyWord(outcome) ==
  IF outcome.kind = "noKey"
  THEN [word |-> <<"E", "R", "R", "O", "R">>, error |-> "API key not configured."]
  ELSE IF outcome.kind = "throw"
  THEN [word |-> <<"M", "O", "R", "S", "E">>,
        error |-> IF outcome.message = InvalidKeyMessage THEN "Invalid API Key."
                  ELSE "Failed to fetch word from API."]
  ELSE LET text == toUpperCase(trim(outcome.text))
       IN IF text = <<>> \/ \E i \in DOMAIN text : text[i] \in WhiteSpace
          THEN [word |-> <<"H", "E", "L", "L", "O">>,
                error |-> "Received invalid word format, using default."]
          ELSE [word |-> text, error |-> null]

\* a loader that returns the text in the case it came in
loader_keepCase(outcome) ==
  IF outcome.kind = "noKey"
  THEN [word |-> <<"E", "R", "R", "O", "R">>, error |-> "API key not configured."]
  ELSE IF outcome.kind = "throw"
  THEN [word |-> <<"M", "O", "R", "S", "E">>,
        error |-> IF outcome.message = InvalidKeyMessage THEN "Invalid API Key."
                  ELSE "Failed to fetch word from API."]
  ELSE LET text == trim(outcome.text)
       IN IF text = <<>> \/ ~testLetters(toUpperCase(text))
             \/ \E i \in DOMAIN text : text[i] = " "
          THEN [word |-> <<"H", "E", "L", "L", "O">>,
                error |-> "Received invalid word format, using default."]
          ELSE [word |-> text, error |-> null]

\* loader: the data of its json response.  error.message?.includes('API key not
\* valid') holds of InvalidKeyMessage alone among the messages enumerated
loader(outcome) ==
  IF outcome.kind = "noKey"
  THEN [word |-> <<"E", "R", "R", "O", "R">>, error |-> "API key not configured."]
  ELSE IF outcome.kind = "throw"
  THEN [word |-> <<"M", "O", "R", "S", "E">>,
        error |-> IF outcome.message = InvalidKeyMessage THEN "Invalid API Key."
                  ELSE "Failed to fetch word from API."]
  ELSE LET text == toUpperCase(trim(outcome.text))
       IN IF text = <<>> \/ ~testLetters(text) \/ \E i \in DOMAIN text : text[i] = " "
          THEN [word |-> <<"H", "E", "L", "L", "O">>,
                error |-> "Received invalid word format, using default."]
          ELSE [word |-> text, error |-> null]

\* -------------------------------------------------------------- LearnWords
isLoading == fetcher.state \in {"loading", "submitting"}

\* the component state once data has been shown and the effect of lines
\* 113-115 has run
FreshRound(data) ==
  [currentWord |-> data.word, apiError |-> data.error, userInput |-> <<>>,
   correctMorse |-> wordToMorse(data.word), showHint |-> FALSE, feedback |-> "",
   validationState |-> "idle"]

RECURSIVE collapseSpaces(_)
\* replace(/\s+/g, ' ')
collapseSpaces(s) ==
  IF s = <<>> THEN <<>>
  ELSE IF Head(s) \in WhiteSpace
  THEN IF Tail(s) # <<>> /\ Head(Tail(s)) \in WhiteSpace
       THEN collapseSpaces(Tail(s))
       ELSE <<" ">> \o collapseSpaces(Tail(s))
  ELSE <<Head(s)>> \o collapseSpaces(Tail(s))

\* what the user types: nothing, the expected code, the expected code with
\* spaces around it, one symbol more, or a single dit
InputChoices ==
  {<<>>, learnWords.correctMorse, <<" ">> \o learnWords.correctMorse \o <<" ">>,
   learnWords.correctMorse \o <<" ", ".">>, <<".">>}

\* onChange of the input field (line 195); the field is disabled while loading
\* and when the answer is correct (line 198)
ChangeInput ==
  \E value \in InputChoices :
    /\ ~isLoading
    /\ learnWords.validationState # "correct"
    /\ learnWords' = [learnWords EXCEPT !.userInput = value]
    /\ lastEvent' = [type |-> "input"]
    /\ UNCHANGED <<fetcher, requests, conv, keying, timers, sessionVars, decoderVars>>

handleCheck ==
  IF isLoading \/ learnWords.validationState = "correct"
  THEN /\ lastEvent' = [type |-> "checkIgnored"]
       /\ UNCHANGED learnWords
  ELSE LET cleanedInput == collapseSpaces(trim(learnWords.userInput))
       IN /\ lastEvent' = [type |-> "check"]
          /\ IF cleanedInput = learnWords.correctMorse
             THEN learnWords' = [learnWords EXCEPT !.feedback = "Correct!",
                                                   !.validationState = "correct"]
             ELSE learnWords' =
                    [learnWords EXCEPT
                       !.feedback = "Incorrect. Try again or use the hint.",
                       !.validationState = "incorrect"]

Check ==
  /\ handleCheck
  /\ UNCHANGED <<fetcher, requests, conv, keying, timers, sessionVars, decoderVars>>

\* handleShowHint guarded against loading only
handleShowHint_loadingOnly ==
  IF isLoading
  THEN /\ lastEvent' = [type |-> "hintIgnored"]
       /\ UNCHANGED learnWords
  ELSE /\ lastEvent' = [type |-> "hint"]
       /\ learnWords' = [learnWords EXCEPT !.showHint = TRUE,
                                           !.validationState = "hinted",
                                           !.feedback = ""]

\* handleShowHint without its guard
handleShowHint_noGuard ==
  /\ lastEvent' = [type |-> "hint"]
  /\ learnWords' = [learnWords EXCEPT !.showHint = TRUE,
                                      !.validationState = "hinted",
                                      !.feedback = ""]

handleShowHint ==
  IF isLoading \/ learnWords.validationState = "correct"
  THEN /\ lastEvent' = [type |-> "hintIgnored"]
       /\ UNCHANGED learnWords
  ELSE /\ lastEvent' = [type |-> "hint"]
       /\ learnWords' = [learnWords EXCEPT !.showHint = TRUE,
                                           !.validationState = "hinted",
                                           !.feedback = ""]

ShowHint ==
  /\ handleShowHint
  /\ UNCHANGED <<fetcher, requests, conv, keying, timers, sessionVars, decoderVars>>

\* handleNextWord without its guard
handleNextWord_noGuard ==
  /\ lastEvent' = [type |-> "nextWord"]
  /\ fetcher' = [fetcher EXCEPT !.state = "loading"]
  /\ requests' = requests + 1

\* handleNextWord: fetcher.load('/learn/words') sends one request
handleNextWord ==
  IF isLoading
  THEN /\ lastEvent' = [type |-> "nextWordIgnored"]
       /\ UNCHANGED <<fetcher, requests>>
  ELSE /\ lastEvent' = [type |-> "nextWord"]
       /\ fetcher' = [fetcher EXCEPT !.state = "loading"]
       /\ requests' = requests + 1

NextWord ==
  /\ requests < MaxInFlight
  /\ handleNextWord
  /\ UNCHANGED <<learnWords, conv, keying, timers, sessionVars, decoderVars>>

\* a response whose effect leaves what the user typed in the field
Respond_keepInput ==
  \E outcome \in Outcomes :
    LET data == loader(outcome)
        state == IF requests = 1 THEN "idle" ELSE "loading"
    IN /\ requests > 0
       /\ requests' = requests - 1
       /\ fetcher' = [state |-> state, data |-> <<data>>]
       /\ learnWords' = IF state = "idle"
                        THEN [FreshRound(data) EXCEPT !.userInput = learnWords.userInput]
                        ELSE learnWords
       /\ lastEvent' = [type |-> "response", outcome |-> outcome, data |-> data]
       /\ UNCHANGED <<conv, keying, timers, sessionVars, decoderVars>>

\* the response to a request arrives: the loader has run with some outcome; the
\* fetcher takes its data and, with no request left, becomes idle; the effect
\* of lines 100-110 then starts a new round
Respond ==
  \E outcome \in Outcomes :
    LET data == loader(outcome)
        state == IF requests = 1 THEN "idle" ELSE "loading"
    IN /\ requests > 0
       /\ requests' = requests - 1
       /\ fetcher' = [state |-> state, data |-> <<data>>]
       /\ learnWords' = IF state = "idle" THEN FreshRound(data) ELSE learnWords
       /\ lastEvent' = [type |-> "response", outcome |-> outcome, data |-> data]
       /\ UNCHANGED <<conv, keying, timers, sessionVars, decoderVars>>

\* ---------------------------------------------------------- specifications
InitWords ==
  /\ keying = "free"
  /\ InitState
  /\ \E outcome \in Outcomes : learnWords = FreshRound(loader(outcome))
  /\ fetcher = [state |-> "idle", data |-> <<>>]
  /\ requests = 0
  /\ ConverterOff

NextWords ==
  \/ ChangeInput
  \/ Check
  \/ ShowHint
  \/ NextWord
  \/ Respond

SpecWords == InitWords /\ [][NextWords]_vars

InitConverter ==
  /\ keying = "free"
  /\ InitState
  /\ PageOff
  /\ \E arg \in ConverterArgs : conv = [arg |-> arg, out |-> arg, calls |-> <<>>]

NextConverter ==
  \/ CallWordToMorse
  \/ CallMorseToWord

SpecConverter == InitConverter /\ [][NextConverter]_vars


\* ------------------------------------------------------------------ claims
LastTarget == Len(learningSequence) - 1

\* C1: a press that arrives while the completion timer is pending cancels the
\* timer and leaves the buffer and the completions as they are; no completion
\* is delivered while the press lasts; the release that ends a recorded press
\* appends one symbol to the buffer.
C1_RapidPressKeepsBuffer ==
  [][ /\ (lastEvent'.type = "press" /\ charTimer # Null) =>
           /\ Pending("char")' = {}
           /\ charTimer' = Null
           /\ currentMorseChar' = currentMorseChar
           /\ emitted' = emitted
      /\ pressElapsed # Null => lastEvent'.type # "complete"
      /\ lastEvent'.type = "release" =>
           \E symbol \in {".", "-"} : currentMorseChar' = currentMorseChar \o symbol
    ]_vars

\* two symbols keyed for the first target with no verdict yet: the second
\* press came while the first symbol's completion timer was pending
C1_Witness ==
  /\ lastEvent.type = "release"
  /\ currentItemIndex = 0
  /\ validationState = "idle"
  /\ Len(currentMorseChar) = 2

\* the symbol the claims give to a press of d ms (threshold 1.5 x 150 ms)
ClaimedSymbol(d) == IF 2 * d < 3 * 150 THEN "." ELSE "-"

RECURSIVE ClaimedCode(_)
ClaimedCode(log) ==
  IF log = <<>> THEN ""
  ELSE ClaimedCode(SubSeq(log, 1, Len(log) - 1)) \o ClaimedSymbol(log[Len(log)])

\* C2: at most one onInputComplete call is made for a buffer, and once the quiet
\* period after the last release has passed (buffer not empty, no completion
\* timer pending, no press in progress) exactly one call has been made, with
\* the classified symbols of the presses in press order.
C2_OneCompletionInPressOrder ==
  /\ Len(emitted) <= 1
  /\ (currentMorseChar # "" /\ charTimer = Null /\ pressElapsed = Null) =>
       /\ holdLog # <<>>
       /\ emitted = <<ClaimedCode(holdLog)>>

\* presses of 100 ms and 400 ms, then the quiet period: one completion, ".-"
C2_Witness ==
  /\ holdLog = <<100, 400>>
  /\ charTimer = Null
  /\ pressElapsed = Null
  /\ emitted = <<".-">>

\* C3: a release with a recorded press start appends exactly one symbol: "."
\* for a press shorter than 225 ms, "-" for one of 225 ms or more.
C3_ClassifyByThreshold ==
  [][ lastEvent'.type = "release" =>
        /\ pressElapsed # Null
        /\ lastEvent'.duration = pressElapsed
        /\ currentMorseChar' =
             currentMorseChar \o (IF pressElapsed < 225 THEN "." ELSE "-")
    ]_vars

\* a press of exactly the threshold has been released and read as a dah
C3_Witness ==
  /\ lastEvent.type = "release"
  /\ lastEvent.duration = 225
  /\ currentMorseChar = "-"

\* C4: the advance callback of a correct answer to a target that is not the
\* last one leaves the session on the next target, idle, with an empty buffer.
C4_AdvanceShowsNextTarget ==
  [][ (lastEvent'.type = "advance" /\ alive /\ lastEvent'.idx < LastTarget) =>
        /\ currentItemIndex' = lastEvent'.idx + 1
        /\ validationState' = "idle"
        /\ currentMorseChar' = ""
    ]_vars

\* C5: a wrong completion makes the state incorrect and keeps the target; the
\* target is still the same when the retry callback runs, and the callback
\* leaves the buffer empty and the state idle.
C5_RetryKeepsTarget ==
  [][ /\ (lastEvent'.type = "complete"
            /\ lastEvent'.code # expectedMorseAt(lastEvent'.idx)) =>
           /\ validationState' = "incorrect"
           /\ currentItemIndex' = currentItemIndex
      /\ (lastEvent'.type = "retry" /\ alive) =>
           /\ currentItemIndex = lastEvent'.idx
           /\ currentItemIndex' = lastEvent'.idx
           /\ validationState' = "idle"
           /\ currentMorseChar' = ""
    ]_vars

C8_OneTimerPerKind ==
  /\ Cardinality(Pending("advance")) <= 1
  /\ Cardinality(Pending("retry")) <= 1

\* C9: an advance or retry callback that runs after the target it was armed for
\* has been replaced, or after the unmount, changes neither the validation
\* state, the feedback, the buffer nor the index.
C9_NoStaleCallback ==
  [][ (lastEvent'.type \in {"advance", "retry"}
         /\ (~alive \/ lastEvent'.idx # currentItemIndex)) =>
        UNCHANGED <<validationState, feedbackMessage, currentMorseChar,
                    currentItemIndex>>
    ]_vars

\* C10: once the last target has been answered correctly, no press, release or
\* completion changes the validation state, the feedback, the buffer or the
\* index.
C10_CompleteIsTerminal ==
  [][ (currentItemIndex = LastTarget /\ validationState = "correct"
         /\ lastEvent'.type \in {"press", "release", "complete"}) =>
        UNCHANGED <<validationState, feedbackMessage, currentMorseChar,
                    currentItemIndex>>
    ]_vars

\* C11: clearInput, called with the decoder idle, in a press or awaiting the
\* completion, leaves no completion timer pending, the buffer and the displayed
\* input empty and no press in progress (press start cleared, isPressing false).
C11_ClearInputResets ==
  (lastEvent.type = "retry" /\ lastEvent.was \in {"idle", "pressing", "awaiting"}) =>
    /\ Pending("char") = {}
    /\ charTimer = Null
    /\ currentMorseChar = ""
    /\ rawInput = ""
    /\ pressElapsed = Null
    /\ isPressing = FALSE

\* clearInput has just run while the button was held down
C11_Witness ==
  /\ lastEvent.type = "retry"
  /\ lastEvent.was = "pressing"
  /\ decoderMounted
  /\ pressElapsed = Null
  /\ currentMorseChar = ""

\* C12: an unmount or a reset leaves no completion timer pending; a completion
\* timer is armed only by a release; so no completion is delivered once the
\* component is gone, and after a reset one is delivered only from a timer that
\* a later release armed, with the buffer that release left.
C12_NoCompletionAfterTeardown ==
  [][ /\ lastEvent'.type = "unmount" => Pending("char")' = {}
      /\ (lastEvent'.type = "retry" /\ lastEvent'.was # "unmounted") =>
           (Pending("char")' = {} /\ currentMorseChar' = "")
      /\ (lastEvent'.type = "advance" /\ currentItemIndex' # currentItemIndex) =>
           (Pending("char")' = {} /\ currentMorseChar' = "")
      /\ (Pending("char") = {} /\ Pending("char")' # {}) => lastEvent'.type = "release"
      /\ ~alive => (Pending("char")' = {} /\ lastEvent'.type # "complete")
      /\ lastEvent'.type = "complete" =>
           (alive /\ charTimer # Null /\ currentMorseChar # "")
    ]_vars

\* the component was unmounted while a completion timer was pending, and no
\* completion timer is left
C12_Witness ==
  /\ lastEvent.type = "unmount"
  /\ lastEvent.was = "awaiting"
  /\ ~alive
  /\ Pending("char") = {}

\* C13: a release with no recorded press start changes nothing: the buffer, the
\* displayed input, the pressing flag, the completion timer and its deadline,
\* and the session are as before.
C13_StrayReleaseIsNoOp ==
  [][ lastEvent'.type = "strayRelease" =>
        /\ pressElapsed = Null
        /\ UNCHANGED <<currentMorseChar, rawInput, isPressing, pressElapsed,
                       charTimer, timers, emitted, holdLog, sessionVars>>
    ]_vars

\* a stray release has come while a completion timer was part-way to its
\* deadline; the timer is still pending with the buffer it was armed for
C13_Witness ==
  /\ lastEvent.type = "strayRelease"
  /\ currentMorseChar # ""
  /\ charTimer # Null
  /\ \E k \in Pending("char") :
       /\ timers[k].id = charTimer
       /\ timers[k].remaining > 0
       /\ timers[k].remaining < interCharSpace

\* C14: in the first state in which a new target is current the buffer and the
\* displayed input are empty, no press is in progress and no completion timer
\* is pending.
C14_TargetChangeFlushesBuffer ==
  [][ currentItemIndex' # currentItemIndex =>
        /\ currentMorseChar' = ""
        /\ rawInput' = ""
        /\ pressElapsed' = Null
        /\ isPressing' = FALSE
        /\ charTimer' = Null
        /\ Pending("char")' = {}
    ]_vars

\* the target changed while a completion timer for the previous target was
\* pending
C14_Witness ==
  /\ lastEvent.type = "advance"
  /\ lastEvent.was = "awaiting"
  /\ alive
  /\ currentItemIndex = lastEvent.idx + 1
  /\ currentMorseChar = ""
  /\ Pending("char") = {}

\* C15: a hint request made while no fetch is loading and the state is not
\* correct makes the state hinted and shows the hint, which is the expected code
\* of the current word, and leaves the word, the expected Morse and the user's
\* input as they are; made while loading or in state correct it changes nothing.
C15_HintRevealsAndKeeps ==
  [][ /\ lastEvent'.type = "hint" =>
           /\ ~isLoading
           /\ learnWords.validationState # "correct"
           /\ learnWords'.validationState = "hinted"
           /\ learnWords'.showHint = TRUE
           /\ learnWords'.correctMorse = wordToMorse(learnWords'.currentWord)
           /\ learnWords'.currentWord = learnWords.currentWord
           /\ learnWords'.correctMorse = learnWords.correctMorse
           /\ learnWords'.userInput = learnWords.userInput
           /\ UNCHANGED <<fetcher, requests>>
      /\ lastEvent'.type = "hintIgnored" =>
           /\ isLoading \/ learnWords.validationState = "correct"
           /\ UNCHANGED <<learnWords, fetcher, requests>>
    ]_vars

\* a hint was asked for after a wrong answer had been typed: the state is
\* hinted, the hint is shown and the input is still there
C15_Witness ==
  /\ lastEvent.type = "hint"
  /\ learnWords.validationState = "hinted"
  /\ learnWords.showHint
  /\ learnWords.userInput = <<".">>
  /\ learnWords.correctMorse # <<>>

Letters ==
  {upperCaseLetters[k] : k \in DOMAIN upperCaseLetters}
    \cup {lowerCaseLetters[k] : k \in DOMAIN lowerCaseLetters}

\* the payload, white space around it set aside, is a non-empty text of letters
ClaimedValid(outcome) ==
  /\ outcome.kind = "text"
  /\ trim(outcome.text) # <<>>
  /\ \A i \in DOMAIN trim(outcome.text) : trim(outcome.text)[i] \in Letters

C17_OneFetchInFlight ==
  [][ /\ requests' <= 1
      /\ (requests' = 1) = isLoading'
      /\ lastEvent'.type = "nextWord" => (requests = 0 /\ requests' = 1)
      /\ lastEvent'.type = "nextWordIgnored" =>
           (isLoading /\ UNCHANGED <<learnWords, fetcher, requests>>)
      /\ lastEvent'.type = "response" => (requests = 1 /\ requests' = 0)
    ]_vars

\* a next-word request was made while a fetch was loading, and one request
\* is outstanding
C17_Witness ==
  /\ lastEvent.type = "nextWordIgnored"
  /\ requests = 1
  /\ isLoading

\* the code of a character (upper-casing first), empty when the table has none
ClaimedCodeOf(char) == morseCodeMapGet(toUpperCase(<<char>>)[1])

RECURSIVE ClaimedEncoding(_)
\* the codes of the characters that have one, in order, one space between two
ClaimedEncoding(word) ==
  IF word = <<>> THEN <<>>
  ELSE LET before == ClaimedEncoding(SubSeq(word, 1, Len(word) - 1))
           code == ClaimedCodeOf(word[Len(word)])
       IN IF code = <<>> THEN before
          ELSE IF before = <<>> THEN code
          ELSE before \o <<" ">> \o code

\* C18: wordToMorse gives the table codes of the word's characters (upper-cased)
\* in order with exactly one space between two codes; a character the table
\* lacks leaves no trace (no space at either end, no two spaces in a row);
\* "SOS" gives "... --- ..." and the empty word gives the empty text.
C18_WordToMorse ==
  conv.calls = <<"wordToMorse">> =>
    /\ conv.out = ClaimedEncoding(conv.arg)
    /\ conv.out # <<>> => (conv.out[1] # " " /\ conv.out[Len(conv.out)] # " ")
    /\ \A i \in 1..(Len(conv.out) - 1) : ~(conv.out[i] = " " /\ conv.out[i + 1] = " ")
    /\ conv.arg = <<"S", "O", "S">> => conv.out = <<".", ".", ".", " ", "-", "-", "-", " ", ".", ".", ".">>
    /\ conv.arg = <<>> => conv.out = <<>>

\* "S#s": the character the table lacks is dropped and the lower-case s is
\* encoded as S
C18_Witness ==
  /\ conv.calls = <<"wordToMorse">>
  /\ conv.arg = <<"S", "#", "s">>
  /\ conv.out = <<".", ".", ".", " ", ".", ".", ".">>

\* C19: decoding a code of the table and encoding the result gives the code
\* back; no two characters of the table share a code, so encoding a character
\* of the table and decoding the result gives the character back.
C19_TableRoundTrip ==
  /\ (conv.calls = <<"morseToWord", "wordToMorse">> /\ conv.arg \in TableCodes) =>
       conv.out = conv.arg
  /\ (conv.calls = <<"wordToMorse", "morseToWord">> /\ conv.arg \in TableKeys) =>
       conv.out = conv.arg

\* the code of $ has been decoded and encoded again
C19_Witness ==
  /\ conv.calls = <<"morseToWord", "wordToMorse">>
  /\ conv.arg = <<".", ".", ".", "-", ".", ".", "-">>
  /\ conv.out = conv.arg

\* C20: morseToWord gives one character for each of the codes that single
\* spaces separate in the trimmed input: the character of the table when the
\* code is in the table, "?" when it is not.
C20_DecodeNeverFails ==
  conv.calls = <<"morseToWord">> =>
    LET codes == split(trim(conv.arg), " ")
    IN /\ Len(conv.out) = Len(codes)
       /\ \A i \in DOMAIN codes :
            IF codes[i] \in TableCodes
            THEN wordToMorse(<<conv.out[i]>>) = codes[i]
            ELSE conv.out[i] = "?"

\* C21: the release that follows a clearInput made during a press appends no
\* symbol and arms no completion timer; the buffer leaves the empty state only
\* by the release of a press whose start was recorded, and a press start is
\* recorded only by a press.
C21_ReleaseAfterResetIsStray ==
  [][ /\ (lastEvent.type = "retry" /\ lastEvent.was = "pressing"
             /\ lastEvent'.type \in {"release", "strayRelease"}) =>
           /\ lastEvent'.type = "strayRelease"
           /\ currentMorseChar' = ""
           /\ rawInput' = ""
           /\ charTimer' = Null
           /\ Pending("char")' = {}
      /\ (currentMorseChar = "" /\ currentMorseChar' # "") =>
           (lastEvent'.type = "release" /\ pressElapsed # Null)
      /\ (pressElapsed = Null /\ pressElapsed' # Null) => lastEvent'.type = "press"
    ]_vars

\* the button was let go after a reset had interrupted the press: nothing was
\* appended and no completion timer is pending
C21_Witness ==
  /\ keying = "free"
  /\ lastEvent.type = "strayRelease"
  /\ decoderMounted
  /\ currentMorseChar = ""
  /\ Pending("char") = {}

\* C22: the index changes only by one step up, made by the advance callback of
\* a correct completion that was handled while the target it leaves was current.
C22_NeverSkipsATarget ==
  [][ currentItemIndex' # currentItemIndex =>
        /\ currentItemIndex' = currentItemIndex + 1
        /\ lastEvent'.type = "advance"
        /\ lastEvent'.idx = currentItemIndex
    ]_vars

\* C23: the index stays between 0 and the index of the last target.
C23_IndexInRange ==
  /\ currentItemIndex >= 0
  /\ currentItemIndex <= LastTarget

\* the advance callback of a correct answer to the last target has run and the
\* index is still that of the last target
C23_Witness ==
  /\ lastEvent.type = "advance"
  /\ lastEvent.idx = LastTarget
  /\ alive
  /\ currentItemIndex = LastTarget
  /\ feedbackMessage = "Congratulations! You completed all letters."

RECURSIVE DotDash(_)
\* the strings of at most n symbols, each a dit or a dah
DotDash(n) ==
  IF n = 0 THEN {""}
  ELSE LET shorter == DotDash(n - 1)
       IN shorter \cup {s \o c : s \in shorter, c \in {".", "-"}}

\* the longest buffer: the longest code and the symbols keyed beyond it
MaxBuffer == 4 + MaxExtra

\* every string the buffer may hold
DotDashBuffers == DotDash(MaxBuffer)

\* C24: the buffer holds dits and dahs only; every onInputComplete call carries
\* a non-empty string of them; a completion timer is pending only while the
\* buffer is not empty and no press is in progress.
C24_BufferIsDitsAndDahs ==
  /\ currentMorseChar \in DotDashBuffers
  /\ lastEvent.type = "complete" =>
       (lastEvent.code # "" /\ lastEvent.code \in DotDashBuffers)
  /\ Pending("char") # {} =>
       (currentMorseChar # "" /\ pressElapsed = Null /\ ~isPressing)

\* the completion of ".-" has been delivered
C24_Witness ==
  /\ lastEvent.type = "complete"
  /\ lastEvent.code = ".-"
  /\ emitted = <<".-">>

\* C25: from a state whose validation state is correct, every step that is not
\* the completion of a fetch leaves the validation state correct and the word,
\* the expected Morse and the hint visibility as they are; a check or a hint
\* request made in that state is ignored.
C25_CorrectUntilNextWord ==
  [][ learnWords.validationState = "correct" =>
        \/ requests' < requests
        \/ /\ learnWords'.validationState = "correct"
           /\ learnWords'.currentWord = learnWords.currentWord
           /\ learnWords'.correctMorse = learnWords.correctMorse
           /\ learnWords'.showHint = learnWords.showHint
           /\ lastEvent'.type \notin {"check", "hint"}
    ]_vars

\* a hint was asked for after a correct answer, with no fetch under way: the
\* state is still correct and the hint is still hidden
C25_Witness ==
  /\ lastEvent.type = "hintIgnored"
  /\ ~isLoading
  /\ learnWords.validationState = "correct"
  /\ learnWords.feedback = "Correct!"
  /\ ~learnWords.showHint

\* C26: the current word changes only in the step in which a fetch completes;
\* that step installs the word and the error of the fetched data and starts a
\* fresh round (input empty, hint hidden, feedback empty, state idle); a check
\* or a hint request, acted on or ignored, leaves the word as it is.
C26_WordChangesOnFetchOnly ==
  [][ /\ learnWords'.currentWord # learnWords.currentWord => requests' < requests
      /\ requests' < requests =>
           /\ lastEvent'.type = "response"
           /\ fetcher'.state = "idle"
           /\ fetcher'.data = <<lastEvent'.data>>
           /\ learnWords'.currentWord = lastEvent'.data.word
           /\ learnWords'.apiError = lastEvent'.data.error
           /\ learnWords'.userInput = <<>>
           /\ learnWords'.showHint = FALSE
           /\ learnWords'.feedback = ""
           /\ learnWords'.validationState = "idle"
      /\ lastEvent'.type \in {"check", "checkIgnored", "hint", "hintIgnored"} =>
           learnWords'.currentWord = learnWords.currentWord
    ]_vars

\* a fetch that failed with an invalid API key has completed: the word is the
\* fallback MORSE, the error is shown and the round is fresh
C26_Witness ==
  /\ lastEvent.type = "response"
  /\ lastEvent.outcome = ThrowOutcome(InvalidKeyMessage)
  /\ requests = 0
  /\ learnWords.currentWord = <<"M", "O", "R", "S", "E">>
  /\ learnWords.apiError = "Invalid API Key."
  /\ learnWords.userInput = <<>>
  /\ learnWords.validationState = "idle"

\* a non-empty text of the letters A to Z
ClaimedWord(word) ==
  /\ word # <<>>
  /\ \A i \in DOMAIN word : \E k \in DOMAIN upperCaseLetters : word[i] = upperCaseLetters[k]

\* C27: the word of every loader result is a non-empty text of the letters A to
\* Z, and its error is null exactly when the generator answered with a text
\* that the loader took as the word; the expected Morse of the current word has
\* one code for each of its characters.
C27_LoaderWordIsLetters ==
  /\ ClaimedWord(learnWords.currentWord)
  /\ Len(split(learnWords.correctMorse, " ")) = Len(learnWords.currentWord)
  /\ fetcher.data # <<>> => ClaimedWord(fetcher.data[1].word)
  /\ lastEvent.type = "response" =>
       /\ ClaimedWord(lastEvent.data.word)
       /\ (lastEvent.data.error = null) =
            (/\ lastEvent.outcome.kind = "text"
             /\ lastEvent.data.word = toUpperCase(trim(lastEvent.outcome.text)))

\* the generator answered "hI": the word is HI, the error is null and the
\* expected Morse has the two codes
C27_Witness ==
  /\ lastEvent.type = "response"
  /\ lastEvent.outcome = TextOutcome(<<"h", "I">>)
  /\ lastEvent.data.error = null
  /\ learnWords.currentWord = <<"H", "I">>
  /\ learnWords.correctMorse = <<".", ".", ".", ".", " ", ".", ".">>

====
